---- MODULE Spec2Model ----
(***************************************************************************)
(* abutils/utils/inputs.py: uniform read access to sequence records held   *)
(* in FASTA files, line-delimited JSON files or MongoDB collections.       *)
(*                                                                         *)
(* One input object (FASTAInput, JSONInput or MongoDBInput) is modelled    *)
(* together with the file system / database it reads.  as_list is one      *)
(* synchronous call; an as_generator pass advances one next() at a time,   *)
(* and the source may change between calls.                                *)
(***************************************************************************)
EXTENDS Integers, Sequences, FiniteSets, TLC

VARIABLES
    kind,        \* class of the instance: "fasta", "json" or "mongodb"
    input,       \* self.input_file / self.raw_collections (descriptor)
    query,       \* self.query
    projection,  \* self.projection
    source,      \* file system or database: name -> content
    lazy,        \* the attribute lazy_property stores as_list's result in
    ret,         \* outcome of the latest as_list access
    gens,        \* the generator objects handed out by as_generator
    connects,    \* number of mongodb.get_db calls made by the instance
    changes,     \* number of changes made to the source so far
    seen,        \* the source as the latest as_list access met it
    factory      \* the latest read_input call: arguments and outcome

vars == <<kind, input, query, projection, source, lazy, ret, gens,
          connects, changes, seen, factory>>

-----------------------------------------------------------------------------
(* Bounds of the model *)

\* most items (lines, FASTA entries, documents) over all containers
MaxItems == 2

\* most changes made to the source during a run
MaxChanges == 1

-----------------------------------------------------------------------------
(* Values *)

None == "None"

\* the generator objects, in the order as_generator hands them out
Gens == {"g1", "g2"}
Before(g, h) == g = "g1" /\ h = "g2"

\* the directory and the paths the file-based instances are given
Dir == "d"
Paths == {"d/a.json", "d/b.fasta"}

\* the paths in the order a sorted directory listing gives them
SortedPaths == <<"d/a.json", "d/b.fasta">>

Ext(p) == IF p = "d/a.json" THEN "json" ELSE "fasta"

\* the collections of the database
Collections == {"c1", "c2"}
SortedCollections == <<"c1", "c2">>

Names == IF kind = "mongodb" THEN Collections ELSE Paths

\* characters of a line of a JSON file; "{x}" and "{y}" stand for the text of
\* one JSON object each
WS == {" ", "\n"}

JsonLines == { <<"{x}", ",", "\n">>,          \* '{"id":"x"},'
               <<" ", "{y}", "\n">>,           \* ' {"id":"y"}'
               <<"]", "\n">>,                  \* ']'
               <<"{x}", "]", ",", "\n">> }     \* '{"id":"x"}],'

\* what SeqIO.parse meets in a FASTA file: entries, or text it cannot read
FastaEntries == { [ok |-> TRUE,  id |-> "seq1", seq |-> "ACGT"],
                  [ok |-> TRUE,  id |-> "seq2", seq |-> "TTTT"],
                  [ok |-> FALSE, id |-> "",     seq |-> ""] }

Documents == { [id |-> "1", tag |-> "hit"],
               [id |-> "2", tag |-> "miss"] }

Pool(k) == CASE k = "json"    -> JsonLines
             [] k = "fasta"   -> FastaEntries
             [] k = "mongodb" -> Documents

Str(s)  == [tag |-> "str",  str |-> s,  list |-> <<>>]
List(l) == [tag |-> "list", str |-> "", list |-> l]
Absent  == [tag |-> "none", str |-> "", list |-> <<>>]

FileInputs == { Str(Dir), Str("d/b.fasta"), List(<<"d/b.fasta", "d/a.json">>) }

CollectionInputs == { Str("c1"), Absent, List(<<"c2", "c1">>) }

Queries == {None, "q"}
Projections == {None, "p"}

RECURSIVE SumLen(_, _)
SumLen(f, S) ==
    IF S = {} THEN 0
    ELSE LET n == CHOOSE n \in S : TRUE
         IN Len(f[n]) + SumLen(f, S \ {n})

SeqsUpTo(S, n) == UNION { [1..m -> S] : m \in 0..n }

\* the sources an instance may be made over: some of the files (collections)
\* exist, and they hold MaxItems items at most between them
Sources(k, names) ==
    UNION { { f \in [S -> SeqsUpTo(Pool(k), MaxItems)] : SumLen(f, S) <= MaxItems }
            : S \in SUBSET names }

-----------------------------------------------------------------------------
(* Library calls, as the code uses them *)

Ev(op, name) == [op |-> op, name |-> name]

RECURSIVE lstrip(_, _)
lstrip(s, chars) ==
    IF s # <<>> /\ Head(s) \in chars THEN lstrip(Tail(s), chars) ELSE s

RECURSIVE rstrip(_, _)
rstrip(s, chars) ==
    IF s # <<>> /\ s[Len(s)] \in chars
    THEN rstrip(SubSeq(s, 1, Len(s) - 1), chars)
    ELSE s

strip(s) == rstrip(lstrip(s, WS), WS)

\* json.loads: the text must be one JSON value, white space around it allowed;
\* anything else (the empty string included) raises ValueError
json_loads(s) ==
    LET t == strip(s)
    IN IF Len(t) = 1 /\ t[1] \in {"{x}", "{y}"}
       THEN [ok |-> TRUE, rec |-> t[1]]
       ELSE [ok |-> FALSE, rec |-> ""]

\* line.strip().lstrip(']').rstrip(']').rstrip(',')
TrimLine(line) == rstrip(rstrip(lstrip(strip(line), {"]"}), {"]"}), {","})

\* j = json.loads(...); Sequence(j)
JSONInput_record(line) == json_loads(TrimLine(line))

\* one step of SeqIO.parse(f, 'fasta'); Sequence(str(seq.seq), id=seq.id)
FASTAInput_record(e) ==
    IF e.ok THEN [ok |-> TRUE, rec |-> [id |-> e.id, seq |-> e.seq]]
    ELSE [ok |-> FALSE, rec |-> [id |-> "", seq |-> ""]]

\* Sequence(r)
MongoDBInput_record(r) == [ok |-> TRUE, rec |-> r]

Record(k, item) == CASE k = "json"    -> JSONInput_record(item)
                     [] k = "fasta"   -> FASTAInput_record(item)
                     [] k = "mongodb" -> MongoDBInput_record(item)

\* os.path.isdir
isdir(p) == p = Dir

\* pipeline.list_files(directory, extension): the files of the directory
\* that carry the extension, in sorted order
list_files(src, d, extension) ==
    SelectSeq(SortedPaths, LAMBDA p : p \in DOMAIN src /\ Ext(p) = extension)

\* mongodb.get_collections(db): the names of the collections of the database
get_collections(src) ==
    SelectSeq(SortedCollections, LAMBDA c : c \in DOMAIN src)

\* collection.find(query, projection): the documents the query matches (all
\* of them when it is None), each cut down to the projected fields
Matches(q, doc) == q = None \/ doc.tag = "hit"

Project(p, doc) == IF p = None THEN doc ELSE [doc EXCEPT !.tag = "omitted"]

RECURSIVE MapProject(_, _)
MapProject(p, docs) ==
    IF docs = <<>> THEN <<>>
    ELSE <<Project(p, Head(docs))>> \o MapProject(p, Tail(docs))

find(src, c, q, p) ==
    IF c \in DOMAIN src
    THEN MapProject(p, SelectSeq(src[c], LAMBDA doc : Matches(q, doc)))
    ELSE <<>>

-----------------------------------------------------------------------------
(* Resolution of the descriptor *)

\* FASTAInput.files, were the directory listed for 'fasta' files
FASTAInput_files_fasta(src) ==
    IF input.tag = "str"
    THEN IF isdir(input.str)
         THEN list_files(src, input.str, "fasta")
         ELSE <<input.str>>
    ELSE input.list

\* FASTAInput.files
FASTAInput_files(src) ==
    IF input.tag = "str"
    THEN IF isdir(input.str)
         THEN list_files(src, input.str, "json")
         ELSE <<input.str>>
    ELSE input.list

\* JSONInput.files
JSONInput_files(src) ==
    IF input.tag = "str"
    THEN IF isdir(input.str)
         THEN list_files(src, input.str, "json")
         ELSE <<input.str>>
    ELSE input.list

\* MongoDBInput.db: every access calls mongodb.get_db
MongoDBInput_db == <<Ev("connect", "db")>>

\* MongoDBInput.collections, were everything but a single name taken as
\* "all collections"
MongoDBInput_collections_listed(src) ==
    IF input.tag = "str"
    THEN [val |-> <<input.str>>, io |-> <<>>]
    ELSE [val |-> get_collections(src),
          io |-> <<Ev("connect", "db"), Ev("list", "db")>>]

\* MongoDBInput.collections: the names, and the calls made to find them
MongoDBInput_collections(src) ==
    IF input.tag = "str"
    THEN [val |-> <<input.str>>, io |-> <<>>]
    ELSE IF input.tag = "none"
    THEN [val |-> get_collections(src),
          io |-> MongoDBInput_db \o <<Ev("list", "db")>>]
    ELSE [val |-> input.list, io |-> <<>>]

-----------------------------------------------------------------------------
(* as_list: the bodies.  A pass is [ok, val, io]: whether it is still      *)
(* running without an exception, the list built so far, the calls made.    *)

Pass0 == [ok |-> TRUE, val |-> <<>>, io |-> <<>>]

\* the same loop, were a record that cannot be parsed passed over
RECURSIVE ReadFile_skipping(_, _, _, _)
ReadFile_skipping(k, f, items, s) ==
    IF ~s.ok \/ items = <<>> THEN s
    ELSE LET r  == Record(k, Head(items))
             io == Append(s.io, Ev("read", f))
         IN ReadFile_skipping(k, f, Tail(items),
                [ok |-> TRUE,
                 val |-> IF r.ok THEN Append(s.val, r.rec) ELSE s.val,
                 io |-> io])

\* for seq in SeqIO.parse(f, 'fasta') / for line in f: parse, append
RECURSIVE ReadFile(_, _, _, _)
ReadFile(k, f, items, s) ==
    IF ~s.ok \/ items = <<>> THEN s
    ELSE LET r  == Record(k, Head(items))
             io == Append(s.io, Ev("read", f))
         IN IF r.ok
            THEN ReadFile(k, f, Tail(items),
                          [ok |-> TRUE, val |-> Append(s.val, r.rec), io |-> io])
            ELSE [ok |-> FALSE, val |-> s.val, io |-> io]

\* for input_file in self.files: with open(input_file, 'r') as f: ...
\* (the with statement closes f when its block is left, by an exception too)
RECURSIVE ReadFiles(_, _, _, _)
ReadFiles(k, files, src, s) ==
    IF ~s.ok \/ files = <<>> THEN s
    ELSE LET f == Head(files)
         IN IF f \notin DOMAIN src
            THEN [s EXCEPT !.ok = FALSE, !.io = Append(@, Ev("open failed", f))]
            ELSE LET r == ReadFile(k, f, src[f],
                                   [s EXCEPT !.io = Append(@, Ev("open", f))])
                 IN ReadFiles(k, Tail(files), src,
                              [r EXCEPT !.io = Append(@, Ev("close", f))])

\* FASTAInput.as_list, the decorated function
FASTAInput_as_list_body(src) == ReadFiles("fasta", FASTAInput_files(src), src, Pass0)

\* JSONInput.as_list, were the list returned at the end of the first file
JSONInput_as_list_first_file(src) ==
    LET files == JSONInput_files(src)
    IN ReadFiles("json", IF files = <<>> THEN <<>> ELSE <<Head(files)>>, src, Pass0)

\* JSONInput.as_list, the decorated function
JSONInput_as_list_body(src) == ReadFiles("json", JSONInput_files(src), src, Pass0)

\* for r in res: sequences.append(Sequence(r))
RECURSIVE ReadCursor(_, _, _)
ReadCursor(c, docs, s) ==
    IF docs = <<>> THEN s
    ELSE ReadCursor(c, Tail(docs),
                    [s EXCEPT !.val = Append(@, MongoDBInput_record(Head(docs)).rec),
                              !.io = Append(@, Ev("read", c))])

\* for collection in self.collections:
\*     res = self.db[collection].find(self.query, self.projection) ...
\* (the cursor is closed by the driver once it has given its last document)
RECURSIVE ReadCollections(_, _, _)
ReadCollections(cols, src, s) ==
    IF cols = <<>> THEN s
    ELSE LET c == Head(cols)
             r == ReadCursor(c, find(src, c, query, projection),
                             [s EXCEPT !.io = @ \o MongoDBInput_db \o <<Ev("find", c)>>])
         IN ReadCollections(Tail(cols), src,
                            [r EXCEPT !.io = Append(@, Ev("close", c))])

\* MongoDBInput.as_list, the decorated function
MongoDBInput_as_list_body(src) ==
    LET cols == MongoDBInput_collections(src)
    IN ReadCollections(cols.val, src, [Pass0 EXCEPT !.io = cols.io])

Count(io, op) == Len(SelectSeq(io, LAMBDA e : e.op = op))

\* decorators.lazy_property: the first access that returns stores the value
\* in an attribute of the instance, later accesses return the attribute
lazy_property(body) ==
    IF lazy.set
    THEN /\ ret' = [status |-> "ok", val |-> lazy.val, io |-> <<>>, cached |-> TRUE]
         /\ seen' = source
         /\ UNCHANGED <<lazy, connects>>
    ELSE /\ connects' = connects + Count(body.io, "connect")
         /\ seen' = source
         /\ IF body.ok
            THEN /\ lazy' = [set |-> TRUE, val |-> body.val]
                 /\ ret' = [status |-> "ok", val |-> body.val, io |-> body.io,
                            cached |-> FALSE]
            ELSE /\ ret' = [status |-> "error", val |-> <<>>, io |-> body.io,
                            cached |-> FALSE]
                 /\ UNCHANGED lazy

\* a plain property: every access runs the function
property(body) ==
    /\ connects' = connects + Count(body.io, "connect")
    /\ ret' = [status |-> IF body.ok THEN "ok" ELSE "error",
               val |-> IF body.ok THEN body.val ELSE <<>>,
               io |-> body.io, cached |-> FALSE]
    /\ seen' = source
    /\ UNCHANGED lazy

\* FASTAInput.as_list, were it a plain property
FASTAInput_as_list_property ==
    /\ kind = "fasta"
    /\ property(FASTAInput_as_list_body(source))
    /\ UNCHANGED <<kind, input, query, projection, source, gens, changes, factory>>

\* FASTAInput.as_list
FASTAInput_as_list ==
    /\ kind = "fasta"
    /\ lazy_property(FASTAInput_as_list_body(source))
    /\ UNCHANGED <<kind, input, query, projection, source, gens, changes, factory>>

\* JSONInput.as_list
JSONInput_as_list ==
    /\ kind = "json"
    /\ lazy_property(JSONInput_as_list_body(source))
    /\ UNCHANGED <<kind, input, query, projection, source, gens, changes, factory>>

\* MongoDBInput.as_list
MongoDBInput_as_list ==
    /\ kind = "mongodb"
    /\ lazy_property(MongoDBInput_as_list_body(source))
    /\ UNCHANGED <<kind, input, query, projection, source, gens, changes, factory>>

-----------------------------------------------------------------------------
(* as_generator: the generator objects.  A generator is the frame of the   *)
(* function body: the list it loops over, the place in it, the open file   *)
(* or cursor with what is still to be read from it, and what it has        *)
(* yielded so far.                                                         *)

Gen0 == [st |-> "none", names |-> <<>>, fi |-> 0, buf |-> <<>>, pos |-> 0,
         out |-> <<>>, io |-> <<>>, held |-> FALSE, stopped |-> FALSE]

\* the with statement's exit / the cursor's end: the handle is given back
Release(fr) ==
    [fr EXCEPT !.held = FALSE, !.buf = <<>>, !.pos = 0,
               !.io = Append(@, Ev("close", fr.names[fr.fi]))]

\* the body of FASTAInput.as_generator / JSONInput.as_generator, run from
\* where it stands to its next yield, its end or its exception
RECURSIVE FileGenRun(_, _, _)
FileGenRun(k, fr, src) ==
    IF fr.held
    THEN IF fr.pos >= Len(fr.buf)
         THEN FileGenRun(k, [Release(fr) EXCEPT !.fi = @ + 1], src)
         ELSE LET r  == Record(k, fr.buf[fr.pos + 1])
                  rd == [fr EXCEPT !.io = Append(@, Ev("read", fr.names[fr.fi]))]
              IN IF r.ok
                 THEN [rd EXCEPT !.st = "suspended", !.pos = @ + 1,
                                 !.out = Append(@, r.rec)]
                 ELSE [Release(rd) EXCEPT !.st = "error"]
    ELSE IF fr.fi > Len(fr.names)
         THEN [fr EXCEPT !.st = "done"]
         ELSE LET f == fr.names[fr.fi]
              IN IF f \notin DOMAIN src
                 THEN [fr EXCEPT !.st = "error",
                                 !.io = Append(@, Ev("open failed", f))]
                 ELSE FileGenRun(k, [fr EXCEPT !.held = TRUE, !.buf = src[f],
                                               !.pos = 0,
                                               !.io = Append(@, Ev("open", f))],
                                 src)

\* FASTAInput.as_generator, one next() on it
FASTAInput_as_generator_body(fr, src) ==
    FileGenRun("fasta",
               IF fr.st = "new"
               THEN [fr EXCEPT !.names = FASTAInput_files(src), !.fi = 1]
               ELSE fr,
               src)

\* JSONInput.as_generator, one next() on it
JSONInput_as_generator_body(fr, src) ==
    FileGenRun("json",
               IF fr.st = "new"
               THEN [fr EXCEPT !.names = JSONInput_files(src), !.fi = 1]
               ELSE fr,
               src)

\* the body of MongoDBInput.as_generator, run to its next yield or its end
RECURSIVE MongoGenRun(_, _)
MongoGenRun(fr, src) ==
    IF fr.held
    THEN IF fr.pos >= Len(fr.buf)
         THEN MongoGenRun([Release(fr) EXCEPT !.fi = @ + 1], src)
         ELSE [fr EXCEPT !.st = "suspended", !.pos = @ + 1,
                         !.out = Append(@, MongoDBInput_record(fr.buf[fr.pos + 1]).rec),
                         !.io = Append(@, Ev("read", fr.names[fr.fi]))]
    ELSE IF fr.fi > Len(fr.names)
         THEN [fr EXCEPT !.st = "done"]
         ELSE LET c == fr.names[fr.fi]
              IN MongoGenRun([fr EXCEPT !.held = TRUE,
                                        !.buf = find(src, c, query, projection),
                                        !.pos = 0,
                                        !.io = @ \o MongoDBInput_db \o <<Ev("find", c)>>],
                             src)

\* MongoDBInput.as_generator, one next() on it
MongoDBInput_as_generator_body(fr, src) ==
    MongoGenRun(IF fr.st = "new"
                THEN LET cols == MongoDBInput_collections(src)
                     IN [fr EXCEPT !.names = cols.val, !.fi = 1, !.io = cols.io]
                ELSE fr,
                src)

\* a generator that takes up the place of one already under way, as it
\* would were the loop's place kept on the instance
NewGenerator_resuming ==
    LET under_way == {h \in Gens : gens[h].st = "suspended"}
    IN IF under_way = {}
       THEN [Gen0 EXCEPT !.st = "new"]
       ELSE [gens[CHOOSE h \in under_way : TRUE] EXCEPT !.out = <<>>, !.io = <<>>]

\* a generator function called: a new generator object, its body not yet run
NewGenerator == [Gen0 EXCEPT !.st = "new"]

\* FASTAInput.as_generator / JSONInput.as_generator / MongoDBInput.as_generator:
\* the property is read and gives a new generator
as_generator(g) ==
    /\ gens[g].st = "none"
    /\ \A h \in Gens : Before(h, g) => gens[h].st # "none"
    /\ gens' = [gens EXCEPT ![g] = NewGenerator]
    /\ UNCHANGED <<kind, input, query, projection, source, lazy, ret, connects,
                   changes, seen, factory>>

Resume(fr, src) ==
    CASE kind = "fasta"   -> FASTAInput_as_generator_body(fr, src)
      [] kind = "json"    -> JSONInput_as_generator_body(fr, src)
      [] kind = "mongodb" -> MongoDBInput_as_generator_body(fr, src)

\* the consumer calls next() on a generator
Pull(g) ==
    /\ gens[g].st \in {"new", "suspended"}
    /\ ~gens[g].stopped
    /\ LET fr == Resume(gens[g], source)
       IN /\ gens' = [gens EXCEPT ![g] = fr]
          /\ connects' = connects + Count(fr.io, "connect")
                                  - Count(gens[g].io, "connect")
    /\ UNCHANGED <<kind, input, query, projection, source, lazy, ret, changes,
                   seen, factory>>

\* the consumer stops pulling and keeps the generator object: the body stays
\* suspended at its yield, inside the with block / the cursor loop
Stop(g) ==
    /\ gens[g].st = "suspended"
    /\ ~gens[g].stopped
    /\ gens' = [gens EXCEPT ![g].stopped = TRUE]
    /\ UNCHANGED <<kind, input, query, projection, source, lazy, ret, connects,
                   changes, seen, factory>>

\* the generator object is closed or collected: GeneratorExit is raised at
\* the yield, the with block is left, the cursor is released
Close(g) ==
    /\ gens[g].st = "suspended"
    /\ gens' = [gens EXCEPT ![g] = [Release(gens[g]) EXCEPT !.st = "closed"]]
    /\ UNCHANGED <<kind, input, query, projection, source, lazy, ret, connects,
                   changes, seen, factory>>

-----------------------------------------------------------------------------
(* The source changes under the instance *)

\* a line, an entry or a document is added to a file or collection
Write(n, item) ==
    /\ changes < MaxChanges
    /\ SumLen(source, DOMAIN source) < MaxItems
    /\ source' = IF n \in DOMAIN source
                 THEN [source EXCEPT ![n] = Append(@, item)]
                 ELSE (n :> <<item>>) @@ source
    /\ changes' = changes + 1
    /\ UNCHANGED <<kind, input, query, projection, gens, lazy, ret, connects, seen,
                   factory>>

\* a file is deleted, a collection dropped
Remove(n) ==
    /\ changes < MaxChanges
    /\ n \in DOMAIN source
    /\ source' = [m \in DOMAIN source \ {n} |-> source[m]]
    /\ changes' = changes + 1
    /\ UNCHANGED <<kind, input, query, projection, gens, lazy, ret, connects, seen,
                   factory>>

-----------------------------------------------------------------------------
(* The factory *)

FactoryIdle == [status |-> "idle", data_type |-> None, input |-> Absent,
                collection |-> Absent, query |-> None, projection |-> None,
                result |-> None]

DataTypes == {"fasta", "json", "mongodb", "csv", "FASTA"}

\* read_input: the function's body is its docstring alone, so every call
\* returns None
read_input ==
    /\ factory.status = "called"
    /\ factory' = [factory EXCEPT !.status = "returned", !.result = None]
    /\ UNCHANGED <<kind, input, query, projection, source, lazy, ret, gens,
                   connects, changes, seen>>

-----------------------------------------------------------------------------
(* Specifications *)

Lazy0 == [set |-> FALSE, val |-> <<>>]
Ret0 == [status |-> "none", val |-> <<>>, io |-> <<>>, cached |-> FALSE]

Init ==
    /\ kind \in {"fasta", "json", "mongodb"}
    /\ input \in (IF kind = "mongodb" THEN CollectionInputs ELSE FileInputs)
    /\ query \in (IF kind = "mongodb" THEN Queries ELSE {None})
    /\ projection \in (IF kind = "mongodb" THEN Projections ELSE {None})
    /\ source \in Sources(kind, Names)
    /\ lazy = Lazy0
    /\ ret = Ret0
    /\ gens = [g \in Gens |-> Gen0]
    /\ connects = 0
    /\ changes = 0
    /\ seen = source
    /\ factory = FactoryIdle

Next ==
    \/ FASTAInput_as_list
    \/ JSONInput_as_list
    \/ MongoDBInput_as_list
    \/ \E g \in Gens : as_generator(g)
    \/ \E g \in Gens : Pull(g)
    \/ \E g \in Gens : Stop(g)
    \/ \E g \in Gens : Close(g)

Spec == Init /\ [][Next]_vars

\* as_list over a source that changes between the calls
NextChanging ==
    \/ FASTAInput_as_list
    \/ JSONInput_as_list
    \/ MongoDBInput_as_list
    \/ \E n \in Names, item \in Pool(kind) : Write(n, item)
    \/ \E n \in Names : Remove(n)

SpecChanging == Init /\ [][NextChanging]_vars

\* a FASTAInput or JSONInput, its list and one generator, over a file system
\* that changes between the calls
InitFiles == kind \in {"fasta", "json"} /\ Init

NextFiles ==
    \/ FASTAInput_as_list
    \/ JSONInput_as_list
    \/ as_generator("g1")
    \/ Pull("g1")
    \/ \E n \in Names, item \in Pool(kind) : Write(n, item)
    \/ \E n \in Names : Remove(n)

SpecFiles == InitFiles /\ [][NextFiles]_vars

\* a MongoDBInput, its list and one generator, over a database that changes
\* between the calls
InitMongo == kind = "mongodb" /\ Init

NextMongo ==
    \/ MongoDBInput_as_list
    \/ as_generator("g1")
    \/ Pull("g1")
    \/ \E n \in Names, item \in Pool(kind) : Write(n, item)
    \/ \E n \in Names : Remove(n)

SpecMongo == InitMongo /\ [][NextMongo]_vars

\* the calls of read_input: one call per behaviour, on any arguments
InitFactory ==
    /\ kind = "json"
    /\ input = Str(Dir)
    /\ query = None
    /\ projection = None
    /\ source = [n \in Paths |-> <<>>]
    /\ lazy = Lazy0
    /\ ret = Ret0
    /\ gens = [g \in Gens |-> Gen0]
    /\ connects = 0
    /\ changes = 0
    /\ seen = source
    /\ factory \in [status : {"called"}, data_type : DataTypes,
                    input : FileInputs \cup {Str("db")},
                    collection : CollectionInputs,
                    query : Queries, projection : Projections,
                    result : {None}]

NextFactory == read_input

SpecFactory == InitFactory /\ [][NextFactory]_vars

-----------------------------------------------------------------------------
(* Properties *)

as_list == FASTAInput_as_list \/ JSONInput_as_list \/ MongoDBInput_as_list

IsPrefix(s, t) == Len(s) <= Len(t) /\ s = SubSeq(t, 1, Len(s))

\* the names in the events of the given kinds, in the order of the calls
NamesOf(io, ops) ==
    LET sel == SelectSeq(io, LAMBDA e : e.op \in ops)
    IN [i \in 1..Len(sel) |-> sel[i].name]

\* the list the instance's files / collections accessor gives
Resolved(src) ==
    CASE kind = "fasta"   -> FASTAInput_files(src)
      [] kind = "json"    -> JSONInput_files(src)
      [] kind = "mongodb" -> MongoDBInput_collections(src).val

\* what one container holds for the instance (nothing, if it does not exist)
Items(src, n) ==
    IF kind = "mongodb" THEN find(src, n, query, projection)
    ELSE IF n \in DOMAIN src THEN src[n] ELSE <<>>

\* the records of the containers named, container after container
RECURSIVE AllRecords(_, _)
AllRecords(names, src) ==
    IF names = <<>> THEN <<>>
    ELSE LET items == Items(src, Head(names))
         IN [i \in 1..Len(items) |-> Record(kind, items[i]).rec]
            \o AllRecords(Tail(names), src)

\* C1: once an as_list access has returned, every later as_list access
\* returns the same stored list and reads nothing: no file is opened, no
\* query issued, no connection made, whatever has become of the source
C1_Memoized ==
    [][(ret.status = "ok" /\ as_list)
       => /\ ret'.status = "ok"
          /\ ret'.val = ret.val
          /\ ret'.io = <<>>
          /\ connects' = connects
          /\ lazy' = lazy]_vars

\* an access served from the stored list after the source has changed so
\* that a fresh read would give another list
C1_Witness ==
    /\ ret.cached
    /\ changes > 0
    /\ seen = source
    /\ \A i \in 1..Len(Resolved(source)) : Resolved(source)[i] \in DOMAIN source
    /\ AllRecords(Resolved(source), source) # ret.val

\* C2: the list as_list returns equals what one full consumption of an
\* as_generator gives, and both are the records of the resolved files or
\* collections in list order, each container's records in its own order
C2_ListEqualsGenerator ==
    /\ lazy.set => lazy.val = AllRecords(Resolved(source), source)
    /\ \A g \in Gens :
         (lazy.set /\ gens[g].st = "done") => gens[g].out = lazy.val

\* a list and a finished generator over two containers that both hold records
C2_Witness ==
    /\ lazy.set
    /\ gens["g1"].st = "done"
    /\ Len(gens["g1"].names) = 2
    /\ Len(lazy.val) = 2
    /\ lazy.val[1] # lazy.val[2]
    /\ \A n \in DOMAIN source : Len(source[n]) <= 1

\* C3: every generator, consumed to its end, has yielded the whole record
\* sequence of the source from the first record, whatever the other
\* generator and as_list have done meanwhile
C3_Restartable ==
    \A g \in Gens :
        gens[g].st = "done" => gens[g].out = AllRecords(Resolved(source), source)

\* the second generator is exhausted while the first, handed out earlier,
\* stands in the middle of its pass, and as_list has been called
C3_Witness ==
    /\ gens["g1"].st = "suspended"
    /\ Len(gens["g1"].out) = 1
    /\ gens["g2"].st = "done"
    /\ Len(gens["g2"].out) = 2
    /\ lazy.set

\* C4: no file or cursor stays open once the pass that opened it is over,
\* be it finished, failed or given up by its consumer
C4_Released ==
    \A g \in Gens :
        (gens[g].st \in {"done", "error", "closed"} \/ gens[g].stopped)
            => ~gens[g].held

EmptyAfterTrim(line) == TrimLine(line) = <<>>

\* the lines of the files named, in order
RECURSIVE AllLines(_, _)
AllLines(names, src) ==
    IF names = <<>> THEN <<>>
    ELSE src[Head(names)] \o AllLines(Tail(names), src)

\* C5: a JSON line that is empty after the trim is skipped without an error
\* and every other line gives one record: the records are as many as the
\* lines that are not empty after the trim
C5_EmptyLinesSkipped ==
    LET names == JSONInput_files(source)
        lines == AllLines(names, source)
        kept  == SelectSeq(lines, LAMBDA l : ~EmptyAfterTrim(l))
    IN (/\ kind = "json"
        /\ \A i \in 1..Len(names) : names[i] \in DOMAIN source
        /\ \A i \in 1..Len(kept) : JSONInput_record(kept[i]).ok)
       => /\ ret.status # "none"
               => (ret.status = "ok" /\ Len(ret.val) = Len(kept))
          /\ \A g \in Gens :
               /\ gens[g].st # "error"
               /\ gens[g].st = "done" => Len(gens[g].out) = Len(kept)

\* C6: read_input returns an input object of the data type asked for, and
\* fails on any other data type
C6_Dispatch ==
    factory.status = "returned"
        => /\ factory.data_type \in {"fasta", "json", "mongodb"}
           /\ factory.result = factory.data_type

\* C7: a MongoDBInput instance connects to the database at most once
C7_OneConnection == connects <= 1

\* the collections the specification stands for
ExpectedCollections(src) ==
    CASE input.tag = "str"  -> <<input.str>>
      [] input.tag = "none" -> get_collections(src)
      [] input.tag = "list" -> input.list

\* the documents of the collections named, in order
RECURSIVE AllDocuments(_, _)
AllDocuments(names, src) ==
    IF names = <<>> THEN <<>>
    ELSE (IF Head(names) \in DOMAIN src THEN src[Head(names)] ELSE <<>>)
         \o AllDocuments(Tail(names), src)

\* what C8 asks of one finished pass over the database src, given the
\* collections it went through, its calls and its records
C8_Pass(cols, io, val, src) ==
    /\ NamesOf(io, {"find"}) = cols
    /\ val = AllRecords(cols, src)
    /\ query = None => Len(val) = Len(AllDocuments(cols, src))

\* of the list: the pass that filled it met the database as `seen`
C8_List ==
    (ret.status = "ok" /\ ~ret.cached)
        => C8_Pass(ExpectedCollections(seen), ret.io, ret.val, seen)

\* of a generator under way or at its end: one find per collection reached,
\* in order; at its end, over a database that has not changed, the results
\* joined in that order
C8_Generator(g) ==
    LET fr == gens[g]
    IN fr.st \notin {"none", "new"}
         => /\ IsPrefix(NamesOf(fr.io, {"find"}), fr.names)
            /\ fr.st = "done" => NamesOf(fr.io, {"find"}) = fr.names
            /\ (fr.st = "done" /\ changes = 0)
                 => C8_Pass(ExpectedCollections(source), fr.io, fr.out, source)

\* of the first next() on a generator: the collections are resolved then
C8_FirstPull(g) ==
    (gens[g].st = "new" /\ gens'[g].st # "new")
        => gens'[g].names = ExpectedCollections(source)

\* C8: MongoDBInput queries the collections its specification resolves to
\* when the pass is made (the one named, all of the database, or the list
\* given), once each and in that order, and returns the results joined in
\* that order; without a query every document is returned
C8_Collections ==
    /\ [](C8_List /\ \A g \in Gens : C8_Generator(g))
    /\ [][\A g \in Gens : C8_FirstPull(g)]_vars

\* a list of two collections given in other than sorted order, both queried
\* by as_list and by a generator
C8_Witness ==
    /\ kind = "mongodb"
    /\ input.tag = "list"
    /\ ret.status = "ok"
    /\ ~ret.cached
    /\ NamesOf(ret.io, {"find"}) = <<"c2", "c1">>
    /\ Len(ret.val) = 2
    /\ ret.val[1] # ret.val[2]
    /\ gens["g1"].st = "done"
    /\ gens["g1"].out = ret.val

\* the files the descriptor stands for
ExpectedFiles(src) ==
    CASE input.tag = "list"                    -> input.list
      [] input.tag = "str" /\ isdir(input.str) -> list_files(src, input.str, "json")
      [] OTHER                                 -> <<input.str>>

\* of the list: the pass goes through the files the descriptor stood for
\* when it was made, and an empty list of files gives an empty list
C9_List ==
    (ret.status # "none" /\ ~ret.cached)
        => LET files   == ExpectedFiles(seen)
               touched == NamesOf(ret.io, {"open", "open failed"})
           IN /\ IsPrefix(touched, files)
              /\ ret.status = "ok" => touched = files
              /\ files = <<>> => (ret.status = "ok" /\ ret.val = <<>>)

\* of a generator under way or at its end: it goes through its files in
\* order, and an empty list of files ends it at once with nothing yielded
C9_Generator(g) ==
    LET fr      == gens[g]
        touched == NamesOf(fr.io, {"open", "open failed"})
    IN fr.st \notin {"none", "new"}
         => /\ IsPrefix(touched, fr.names)
            /\ fr.st = "done" => touched = fr.names
            /\ fr.names = <<>> => (fr.st = "done" /\ fr.out = <<>>)

\* of the first next() on a generator: the files are resolved then
C9_FirstPull(g) ==
    (gens[g].st = "new" /\ gens'[g].st # "new")
        => gens'[g].names = ExpectedFiles(source)

\* C9: a pass of FASTAInput or JSONInput goes through the files the
\* descriptor stands for when the pass is made: the 'json' files of the
\* directory as the lister gives them (for FASTAInput too), the one path, or
\* the list given; a directory without such files gives an empty sequence
\* from both accessors and no error
C9_Files ==
    /\ [](C9_List /\ \A g \in Gens : C9_Generator(g))
    /\ [][\A g \in Gens : C9_FirstPull(g)]_vars

\* a FASTA instance on a directory: after a change, the list has read the
\* one .json file and not the .fasta file beside it, and a generator has
\* found no .json file left
C9_Witness ==
    /\ kind = "fasta"
    /\ input = Str(Dir)
    /\ changes > 0
    /\ ret.status = "ok"
    /\ ~ret.cached
    /\ "d/b.fasta" \in DOMAIN seen
    /\ Len(seen["d/b.fasta"]) > 0
    /\ NamesOf(ret.io, {"open"}) = <<"d/a.json">>
    /\ Len(ret.val) > 0
    /\ gens["g1"].st = "done"
    /\ gens["g1"].names = <<>>
    /\ DOMAIN source = {"d/b.fasta"}

BadFile(src, f) ==
    \/ f \notin DOMAIN src
    \/ \E i \in 1..Len(src[f]) : ~Record(kind, src[f][i]).ok

\* what C10 asks of the latest pass when it met a file it cannot open or a
\* record it cannot parse
C10_FailFast ==
    LET files == ExpectedFiles(seen)
        bad   == {i \in 1..Len(files) : BadFile(seen, files[i])}
    IN (kind \in {"fasta", "json"} /\ ret.status # "none" /\ ~ret.cached
          /\ bad # {})
       => LET k == CHOOSE i \in bad : \A j \in bad : i <= j
              f == files[k]
          IN /\ ret.status = "error"
             /\ ret.val = <<>>
             /\ ~lazy.set
             /\ NamesOf(ret.io, {"open", "open failed"}) = SubSeq(files, 1, k)
             /\ f \in DOMAIN seen
                  => /\ ~Record(kind, seen[f][Count(SelectSeq(ret.io,
                                    LAMBDA e : e.name = f), "read")]).ok
                     /\ \A i \in 1..(Count(SelectSeq(ret.io,
                                    LAMBDA e : e.name = f), "read") - 1) :
                            Record(kind, seen[f][i]).ok

\* C10: a read that fails reads nothing past the failure, returns no list
\* and leaves the stored list unset, so that the next as_list access reads
\* again; the stored list is written once, by a pass that has returned
C10_FailFastNoMemo ==
    /\ [](C10_FailFast)
    /\ [][lazy' # lazy => (~lazy.set /\ ret'.status = "ok" /\ lazy'.val = ret'.val)]_vars
    /\ [][(ret.status = "error" /\ as_list) => ~ret'.cached]_vars

\* a pass that read one record and failed on the next
C10_Witness ==
    /\ ret.status = "error"
    /\ Count(ret.io, "read") = 2
    /\ Count(ret.io, "close") = 1
    /\ ~lazy.set

====
